---- MODULE Spec2Model ----
(***************************************************************************)
(* Model of bpl_lib/transactions/Transaction.py: the canonical byte         *)
(* encoding of a transaction (_to_bytes), the identifier (_get_id), and     *)
(* the sign / second_sign / verify / second_verify lifecycle.               *)
(*                                                                          *)
(* Bytes are sequences of integers 0..255.  Hex strings (public keys,       *)
(* vendor field, signatures, ids) are sequences of hex digits 0..15; a      *)
(* digit outside 0..15 stands for a non-hex character.  Python's None is    *)
(* NoneStr for string-valued fields, NoneInt for fee and "None" for the     *)
(* recipient (a base58 string).                                             *)
(***************************************************************************)
EXTENDS Integers, Sequences, FiniteSets, TLC

VARIABLES
    concrete,               \* TRUE: instance of a concrete type overriding _handle_transaction_type
    configured,             \* TRUE once the concrete type has assigned its fields
    id,                     \* self._id
    type,                   \* self._type
    recipient_id,           \* self._recipient_id
    amount,                 \* self._amount
    fee,                    \* self._fee
    asset,                  \* self._asset (the bytes the type hook appends)
    vendor_field,           \* self._vendor_field
    timestamp,              \* self._timestamp
    requester_public_key,   \* self._requester_public_key
    sender_public_key,      \* self._sender_public_key
    signature,              \* self._signature
    sign_signature,         \* self._sign_signature
    signed_over,            \* history: the bytes the last successful _sign hashed
    ret                     \* outcome of the last call

vars == <<concrete, configured, id, type, recipient_id, amount, fee, asset,
          vendor_field, timestamp, requester_public_key, sender_public_key,
          signature, sign_signature, signed_over, ret>>

fields == <<concrete, id, type, recipient_id, amount, fee, asset, vendor_field,
            timestamp, requester_public_key, sender_public_key>>

(***************************************************************************)
(* Bounds of the model.                                                     *)
(***************************************************************************)
NumTimestamps == 1

(***************************************************************************)
(* Widths fixed by the encoding.                                            *)
(***************************************************************************)
RecipientWidth == 21
VendorFieldWidth == 64
PublicKeyWidth == 33

NoneStr == <<-1>>
NoneInt == -1
NoneRecipient == "None"

\* the passphrases callers use
Secrets == {1, 2}
Timestamps == {10000000 + t : t \in 0..(NumTimestamps - 1)}
Types == {0, 2}
Amounts == {100000000}
Fees == {10000000}

Zeros(n) == [i \in 1..n |-> 0]
Fill(n, b) == [i \in 1..n |-> b]

\* binascii-style conversions between bytes and hex strings
HexOk(h) == Len(h) % 2 = 0 /\ \A i \in 1..Len(h) : h[i] \in 0..15
UnhexBytes(h) == [i \in 1..(Len(h) \div 2) |-> 16 * h[2 * i - 1] + h[2 * i]]
unhexlify(h) ==
    IF HexOk(h) THEN [ok |-> TRUE, err |-> "", bytes |-> UnhexBytes(h)]
    ELSE [ok |-> FALSE, err |-> "MalformedHexError", bytes |-> <<>>]
hexlify(b) ==
    [i \in 1..(2 * Len(b)) |->
        IF i % 2 = 1 THEN b[(i + 1) \div 2] \div 16 ELSE b[i \div 2] % 16]

\* little-endian fixed-width integer
RECURSIVE LittleEndian(_, _)
LittleEndian(v, n) ==
    IF n = 0 THEN <<>> ELSE <<v % 256>> \o LittleEndian(v \div 256, n - 1)

write_byte(buffer, b) == buffer \o <<b % 256>>
write_int(buffer, v) == buffer \o LittleEndian(v, 4)
\* Buffer.write_long: an unset value cannot be packed
write_long(buffer, v) ==
    IF v = NoneInt THEN [ok |-> FALSE, err |-> "MissingFeeError", bytes |-> <<>>]
    ELSE [ok |-> TRUE, err |-> "", bytes |-> buffer \o LittleEndian(v, 8)]

\* Keys(secret).get_public_key(): a 33-byte compressed key, hex-encoded
get_public_key(secret) == hexlify(<<2>> \o Fill(PublicKeyWidth - 1, secret))

\* sha256 as an ideal (collision-free) digest: the tagged preimage
sha256(b) == <<255>> \o b
\* the bytes an ideal digest was taken over
Preimage(digest) == Tail(digest)

\* Signature(secret).sign(hash)["signature"]: hex string, one per (secret, hash)
SignatureSign(secret, hash) == hexlify(<<48, secret>> \o hash)

\* Signature.verify(public_key, hash, signature)
SignatureVerify(public_key, hash, sig) ==
    IF sig = NoneStr \/ ~HexOk(sig)
    THEN [ok |-> FALSE, err |-> "VerificationError", value |-> FALSE]
    ELSE [ok |-> TRUE, err |-> "",
          value |-> \E s \in Secrets :
                        /\ get_public_key(s) = public_key
                        /\ sig = SignatureSign(s, hash)]

\* base58.b58decode_check, tabulated on the strings used here: a string
\* with a valid checksum decodes to its payload, whatever the payload's
\* length; any other string fails the checksum with ValueError
ValidAddress == "B4YQhgsa8yVXAHAgsnAX4ux2pz6P3dYfZJ"
BitcoinAddress == "1A1zP1eP5QGefi2DMPTfTL5SLmv7DivfNa"
ShortPayloadAddress == "3HD6pjZkkwwVapcj7XArrpnzxjPY5eAzt"
BadChecksumAddress == "B4YQhgsa8yVXAHAgsnAX4ux2pz6P3dYfZ1"
b58decode_check(a) ==
    IF a = ValidAddress
    THEN [ok |-> TRUE, err |-> "", bytes |-> <<25>> \o [i \in 1..20 |-> i]]
    ELSE IF a = BitcoinAddress
    THEN [ok |-> TRUE, err |-> "",
          bytes |-> <<0, 98, 233, 7, 177, 92, 191, 39, 213, 66, 83, 153, 235,
                      246, 240, 251, 80, 235, 184, 143, 24>>]
    ELSE IF a = ShortPayloadAddress
    THEN [ok |-> TRUE, err |-> "", bytes |-> <<25>> \o [i \in 1..19 |-> i]]
    ELSE [ok |-> FALSE, err |-> "ValueError", bytes |-> <<>>]

Recipients ==
    {NoneRecipient, "", ValidAddress, ShortPayloadAddress, BadChecksumAddress}
RequesterKeys == {NoneStr, hexlify(<<3>> \o Fill(PublicKeyWidth - 1, 7))}
VendorFields ==
    {NoneStr, <<>>, hexlify(<<66, 80>>), hexlify(Fill(VendorFieldWidth, 9)),
     hexlify(Fill(VendorFieldWidth + 1, 9)), <<4, 2, 5>>}
\* the bytes a concrete type's hook appends: none for a transfer (type 0),
\* the username for a delegate registration (type 2)
AssetOf(t) == IF t = 2 THEN <<98, 112, 108>> ELSE <<>>

\* the truth value Python gives an optional field: None and "" are false
Falsy(s) == s = NoneStr \/ s = <<>>
FalsyRecipient(a) == a = NoneRecipient \/ a = ""

\* a Python exception / a returned byte string
Raise(e) == [ok |-> FALSE, err |-> e, bytes |-> <<>>]
Return(b) == [ok |-> TRUE, err |-> "", bytes |-> b]

(***************************************************************************)
(* Transaction._to_bytes, section by section.  Each section yields the     *)
(* bytes it appends, or the exception that aborts the whole encoding.  A   *)
(* buffer is Return(bytes written so far), or the exception raised on the  *)
(* way, which every later statement passes on unchanged.                   *)
(***************************************************************************)
\* buffer.write_bytes(section): an exception in either aborts the encoding
Write(r, section) ==
    IF ~r.ok THEN r
    ELSE IF ~section.ok THEN section
    ELSE Return(r.bytes \o section.bytes)

sender_section == unhexlify(sender_public_key)

requester_section ==
    IF Falsy(requester_public_key) THEN Return(<<>>)
    ELSE unhexlify(requester_public_key)

recipient_section ==
    IF FalsyRecipient(recipient_id) THEN Return(Zeros(RecipientWidth))
    ELSE b58decode_check(recipient_id)

\* vendor_field + bytes(64 - len(vendor_field)); bytes(n) raises for n < 0
PadVendor(v) ==
    IF ~v.ok THEN v
    ELSE IF VendorFieldWidth - Len(v.bytes) < 0 THEN Raise("ValueError")
    ELSE Return(v.bytes \o Zeros(VendorFieldWidth - Len(v.bytes)))

TruncateVendor(v) ==
    IF ~v.ok THEN v
    ELSE IF VendorFieldWidth - Len(v.bytes) < 0
    THEN Return(SubSeq(v.bytes, 1, VendorFieldWidth))
    ELSE Return(v.bytes \o Zeros(VendorFieldWidth - Len(v.bytes)))

\* variant: an over-long vendor field is cut to the section width
vendor_section_truncating ==
    IF Falsy(vendor_field) THEN Return(Zeros(VendorFieldWidth))
    ELSE TruncateVendor(unhexlify(vendor_field))

vendor_section ==
    IF Falsy(vendor_field) THEN Return(Zeros(VendorFieldWidth))
    ELSE PadVendor(unhexlify(vendor_field))

\* Transaction._handle_transaction_type: abstract in the parent class; a
\* concrete type appends the bytes of its asset
handle_transaction_type(buffer) ==
    IF ~buffer.ok THEN buffer
    ELSE IF concrete THEN Return(buffer.bytes \o asset)
    ELSE Raise("NotImplementedError")

\* variant: a requested signature section that is not stored is an error
handle_signature_strict(buffer, skip_signature, skip_second_signature) ==
    Write(Write(buffer,
                IF skip_signature THEN Return(<<>>)
                ELSE IF Falsy(signature) THEN Raise("MissingSignatureError")
                ELSE unhexlify(signature)),
          IF skip_second_signature THEN Return(<<>>)
          ELSE IF Falsy(sign_signature) THEN Raise("MissingSignatureError")
          ELSE unhexlify(sign_signature))

\* Transaction._handle_signature
handle_signature(buffer, skip_signature, skip_second_signature) ==
    Write(Write(buffer,
                IF ~skip_signature /\ ~Falsy(signature)
                THEN unhexlify(signature) ELSE Return(<<>>)),
          IF ~skip_second_signature /\ ~Falsy(sign_signature)
          THEN unhexlify(sign_signature) ELSE Return(<<>>))

\* buffer.write_long(v)
WriteLong(buffer, v) == IF buffer.ok THEN write_long(buffer.bytes, v) ELSE buffer

\* the fields up to the type hook, in the order they are written
to_bytes_fields ==
    WriteLong(WriteLong(Write(Write(Write(Write(
            Return(write_int(write_byte(<<>>, type), timestamp)),
            sender_section),
            requester_section),
            recipient_section),
            vendor_section),
         amount),
         fee)

to_bytes(skip_signature, skip_second_signature) ==
    handle_signature(handle_transaction_type(to_bytes_fields),
                     skip_signature, skip_second_signature)

\* sha256(...) and hexlify(sha256(...)) of what the encoder returned
Digest(b) == IF b.ok THEN Return(sha256(b.bytes)) ELSE b
HexDigest(b) == IF b.ok THEN Return(hexlify(sha256(b.bytes))) ELSE b

\* Transaction._get_hash
get_hash(skip_signature, skip_second_signature) ==
    Digest(to_bytes(skip_signature, skip_second_signature))

\* variant: the id taken over the bytes without the signature sections
get_id_unsigned == HexDigest(to_bytes(TRUE, TRUE))

\* Transaction._get_id
get_id == HexDigest(to_bytes(FALSE, FALSE))

\* the hash each operation hands to the signing / verification primitive
sign_hash == get_hash(TRUE, TRUE)
second_sign_hash == get_hash(FALSE, TRUE)
verify_hash == get_hash(FALSE, TRUE)
second_verify_hash == get_hash(FALSE, FALSE)

\* Transaction.to_dict
to_dict ==
    [type |-> type, amount |-> amount, fee |-> fee, asset |-> asset, id |-> id,
     recipientId |-> recipient_id, venderField |-> vendor_field,
     timestamp |-> timestamp, senderPublicKey |-> sender_public_key,
     signature |-> signature, signSignature |-> sign_signature]

(***************************************************************************)
(* The outcome of a call: what it returned or raised, the switches it was  *)
(* given, the bytes it hashed and what the verification primitive said.    *)
(***************************************************************************)
Outcome(op, status, err, pyvalue, value) ==
    [op |-> op, status |-> status, err |-> err, pyvalue |-> pyvalue,
     value |-> value, skip_signature |-> TRUE, skip_second_signature |-> TRUE,
     hashed |-> <<>>, primitive |-> "None"]

Raised(op, err) == Outcome(op, "raised", err, "None", <<>>)

PyBool(b) == IF b THEN "True" ELSE "False"

\* variant: the constructor starts the fee at zero
InitFeeZero ==
    /\ concrete \in BOOLEAN
    /\ configured = FALSE
    /\ id = NoneStr
    /\ type \in Types
    /\ recipient_id = NoneRecipient
    /\ amount = 0
    /\ fee = 0
    /\ asset = <<>>
    /\ vendor_field = NoneStr
    /\ timestamp \in Timestamps
    /\ requester_public_key = NoneStr
    /\ \E secret \in Secrets : sender_public_key = get_public_key(secret)
    /\ signature = NoneStr
    /\ sign_signature = NoneStr
    /\ signed_over = <<>>
    /\ ret = Outcome("__init__", "returned", "", "None", <<>>)

Init ==
    /\ concrete \in BOOLEAN
    /\ configured = FALSE
    /\ id = NoneStr
    /\ type \in Types
    /\ recipient_id = NoneRecipient
    /\ amount = 0
    /\ fee = NoneInt
    /\ asset = <<>>
    /\ vendor_field = NoneStr
    /\ timestamp \in Timestamps
    /\ requester_public_key = NoneStr
    /\ \E secret \in Secrets : sender_public_key = get_public_key(secret)
    /\ signature = NoneStr
    /\ sign_signature = NoneStr
    /\ signed_over = <<>>
    /\ ret = Outcome("__init__", "returned", "", "None", <<>>)

\* the concrete type's constructor assigns its fields after Transaction.__init__
Configure ==
    /\ ~configured
    /\ configured' = TRUE
    /\ recipient_id' \in Recipients
    /\ amount' \in Amounts
    /\ fee' \in Fees
    /\ asset' = AssetOf(type)
    /\ vendor_field' \in VendorFields
    /\ requester_public_key' \in RequesterKeys
    /\ ret' = Outcome("configure", "returned", "", "None", <<>>)
    /\ UNCHANGED <<concrete, id, type, timestamp, sender_public_key,
                   signature, sign_signature, signed_over>>

\* the outcome of a call that returns what the encoder returned
Encoded(op, pyvalue, b) ==
    IF b.ok THEN Outcome(op, "returned", "", pyvalue, b.bytes) ELSE Raised(op, b.err)

\* a direct call of _to_bytes(skip_signature, skip_second_signature)
ToBytes ==
    \E s1 \in BOOLEAN, s2 \in BOOLEAN :
        /\ ret' = [Encoded("to_bytes", "bytes", to_bytes(s1, s2))
                   EXCEPT !.skip_signature = s1, !.skip_second_signature = s2]
        /\ UNCHANGED <<fields, configured, signature, sign_signature, signed_over>>

\* variant: get_id caches the digest in self._id
GetIdStoring ==
    /\ ret' = Encoded("get_id", "str", get_id)
    /\ id' = IF ret'.status = "returned" THEN ret'.value ELSE id
    /\ UNCHANGED <<concrete, type, recipient_id, amount, fee, asset, vendor_field,
                   timestamp, requester_public_key, sender_public_key,
                   configured, signature, sign_signature, signed_over>>

GetId ==
    /\ ret' = Encoded("get_id", "str", get_id)
    /\ UNCHANGED <<fields, configured, signature, sign_signature, signed_over>>

ToDict ==
    /\ ret' = Outcome("to_dict", "returned", "", "dict", to_dict)
    /\ UNCHANGED <<fields, configured, signature, sign_signature, signed_over>>

\* the outcome of a signing call given the hash h it computed
Signed(op, h) ==
    IF h.ok THEN [Outcome(op, "returned", "", "None", <<>>)
                  EXCEPT !.hashed = Preimage(h.bytes)]
    ELSE Raised(op, h.err)

Sign ==
    \E secret \in Secrets :
        LET h == sign_hash
        IN  /\ signature' = IF h.ok THEN SignatureSign(secret, h.bytes) ELSE signature
            /\ signed_over' = IF h.ok THEN Preimage(h.bytes) ELSE signed_over
            /\ ret' = Signed("sign", h)
            /\ UNCHANGED <<fields, configured, sign_signature>>

SecondSign ==
    \E secret \in Secrets :
        LET h == second_sign_hash
        IN  /\ sign_signature' = IF h.ok THEN SignatureSign(secret, h.bytes)
                                 ELSE sign_signature
            /\ ret' = [Signed("second_sign", h) EXCEPT !.skip_signature = FALSE]
            /\ UNCHANGED <<fields, configured, signature, signed_over>>

\* the outcome of a verifying call given the hash h it computed and the
\* primitive's answer v: the boolean is computed and dropped; the hash is
\* handed to the primitive whether the primitive then raises or answers
Verified(op, h, v) ==
    IF ~h.ok THEN Raised(op, h.err)
    ELSE IF ~v.ok THEN [Raised(op, v.err) EXCEPT !.hashed = Preimage(h.bytes)]
    ELSE [Outcome(op, "returned", "", "None", <<>>)
          EXCEPT !.hashed = Preimage(h.bytes), !.primitive = PyBool(v.value)]

VerifyWith(op, h, sig) ==
    Verified(op, h, SignatureVerify(sender_public_key, h.bytes, sig))

\* Transaction.verify
Verify ==
    /\ ret' = [VerifyWith("verify", verify_hash, signature)
               EXCEPT !.skip_signature = FALSE]
    /\ UNCHANGED <<fields, configured, signature, sign_signature, signed_over>>

\* Transaction.second_verify
SecondVerify ==
    /\ ret' = [VerifyWith("second_verify", second_verify_hash, sign_signature)
               EXCEPT !.skip_signature = FALSE, !.skip_second_signature = FALSE]
    /\ UNCHANGED <<fields, configured, signature, sign_signature, signed_over>>

Next ==
    \/ Configure
    \/ ToBytes
    \/ GetId
    \/ ToDict
    \/ Sign
    \/ SecondSign
    \/ Verify
    \/ SecondVerify

Spec == Init /\ [][Next]_vars
(***************************************************************************)
(* Properties.                                                             *)
(***************************************************************************)
EncodingOps == {"to_bytes", "get_id", "sign", "second_sign", "verify", "second_verify"}

Returned(op) == ret.op = op /\ ret.status = "returned"

\* the bytes of a stored signature, nothing when it is not stored
StoredBytes(sig) == IF Falsy(sig) THEN <<>> ELSE UnhexBytes(sig)

\* the encoding with neither signature section
UnsignedBytes == to_bytes(TRUE, TRUE).bytes

\* C1 (as stated): the identifier is taken over bytes that contain neither
\* signature section, so get_id() returns the same value in the unsigned,
\* singly-signed and doubly-signed states.
C1_IdExcludesSignatures ==
    Returned("get_id") => ret.value = hexlify(sha256(UnsignedBytes))

\* C1 (amended): get_id() hashes the encoding with every stored signature
\* section appended, so it equals the identifier of the unsigned transaction
\* exactly while no signature is stored.
C1_IdCoversStoredSignatures ==
    Returned("get_id") =>
        /\ ret.value = hexlify(sha256(UnsignedBytes \o StoredBytes(signature)
                                          \o StoredBytes(sign_signature)))
        /\ (ret.value = hexlify(sha256(UnsignedBytes)))
               <=> (signature = NoneStr /\ sign_signature = NoneStr)

C1_Witness ==
    Returned("get_id") /\ signature # NoneStr /\ sign_signature # NoneStr

\* C2: once sign has stored the signature, the bytes verify() hashes are the
\* bytes sign hashed to produce it.
C2_VerifyHashesWhatSignHashed ==
    (Returned("verify") /\ signature # NoneStr) => ret.hashed = signed_over

\* C3: verify() and second_verify() return the boolean the verification
\* primitive produced.
C3_VerifyReturnsPrimitiveBoolean ==
    (Returned("verify") \/ Returned("second_verify")) =>
        /\ ret.pyvalue \in {"True", "False"}
        /\ ret.pyvalue = ret.primitive

\* C4: after sign(S) and then second_sign(S), S being the secret the
\* transaction was constructed with, second_verify() returns true.
C4_SecondSignRoundTrip ==
    \A S \in Secrets :
        ( /\ sender_public_key = get_public_key(S)
          /\ signature = SignatureSign(S, sha256(UnsignedBytes))
          /\ sign_signature = SignatureSign(S, sha256(to_bytes(FALSE, TRUE).bytes))
          /\ ret.op = "second_verify" )
        => (ret.status = "returned" /\ ret.pyvalue = "True")

\* C5: in every state in which second_verify() computes its hash, signatures
\* stored or not, the bytes it hashes are the encoding with both signature
\* sections left out.
C5_SecondVerifyHashesUnsigned ==
    (ret.op = "second_verify" /\ to_bytes(FALSE, FALSE).ok)
        => ret.hashed = UnsignedBytes

\* C6 (as stated): encoding with skip_signature = false while no signature is
\* stored raises an error.
C6_MissingSignatureRaises ==
    (ret.op \in {"to_bytes", "second_sign", "verify"} /\ ~ret.skip_signature
        /\ signature = NoneStr)
    => ret.status = "raised"

\* C6 (amended): encoding with skip_signature = false while no signature is
\* stored gives what skip_signature = true gives: the section is left out,
\* nothing is padded and nothing is raised on its account; second_sign before
\* sign signs the unsigned bytes.
C6_MissingSignatureOmitted ==
    /\ (ret.op = "to_bytes" /\ ~ret.skip_signature /\ signature = NoneStr) =>
           LET b == to_bytes(TRUE, ret.skip_second_signature)
           IN  /\ (ret.status = "returned") <=> b.ok
               /\ ret.value = b.bytes
               /\ ret.err = b.err
    /\ (ret.op = "second_sign" /\ signature = NoneStr) =>
           LET b == to_bytes(TRUE, TRUE)
           IN  /\ (ret.status = "returned") <=> b.ok
               /\ ret.hashed = b.bytes
               /\ ret.err = b.err

C6_Witness ==
    /\ Returned("to_bytes") /\ ~ret.skip_signature /\ signature = NoneStr
    /\ sign_signature # NoneStr

\* the parts of an encoding, by position
RequesterBytes == StoredBytes(requester_public_key)
AmountOffset == 1 + 4 + PublicKeyWidth + Len(RequesterBytes)
                  + RecipientWidth + VendorFieldWidth
Slice(b, offset, width) == SubSeq(b, offset + 1, offset + width)

\* the signature sections of the last call: those requested and stored
SignatureTail ==
    (IF ret.skip_signature THEN <<>> ELSE StoredBytes(signature))
    \o (IF ret.skip_second_signature THEN <<>> ELSE StoredBytes(sign_signature))

\* C7: a successful encoding is type (1), timestamp (4), sender key, requester
\* key if present, recipient (21), vendor field (64), amount (8), fee (8), the
\* hook's bytes, then the requested signature sections; amount sits at offset
\* 123, moved only by the length of the requester key, whatever the recipient
\* and the vendor field contain.
C7_FixedLayout ==
    Returned("to_bytes") =>
        LET b == ret.value
            k == Len(RequesterBytes)
        IN  /\ AmountOffset = 123 + k
            /\ Len(b) = AmountOffset + 16 + Len(asset) + Len(SignatureTail)
            /\ Slice(b, 0, 1) = <<type>>
            /\ Slice(b, 1, 4) = LittleEndian(timestamp, 4)
            /\ Slice(b, 5, PublicKeyWidth) = UnhexBytes(sender_public_key)
            /\ Slice(b, 5 + PublicKeyWidth, k) = RequesterBytes
            /\ Slice(b, 5 + PublicKeyWidth + k, RecipientWidth)
                   = (IF FalsyRecipient(recipient_id) THEN Zeros(RecipientWidth)
                      ELSE b58decode_check(recipient_id).bytes)
            /\ Slice(b, AmountOffset, 8) = LittleEndian(amount, 8)
            /\ Slice(b, AmountOffset + 8, 8) = LittleEndian(fee, 8)
            /\ Slice(b, AmountOffset + 16, Len(asset)) = asset
            /\ Slice(b, AmountOffset + 16 + Len(asset), Len(SignatureTail))
                   = SignatureTail

\* C8: a vendor field of L <= 64 decoded bytes is encoded as those bytes and
\* 64 - L zero bytes (64 zero bytes when absent or empty); one of L > 64 bytes
\* makes the encoding fail with no bytes.  The section is the 64 bytes before
\* amount, fee, the hook's bytes and the signature sections.
C8_VendorFieldPadding ==
    ret.op = "to_bytes" =>
        LET after == 16 + Len(asset) + Len(SignatureTail)
            section == Slice(ret.value, Len(ret.value) - after - VendorFieldWidth,
                             VendorFieldWidth)
            decoded == UnhexBytes(vendor_field)
        IN  IF Falsy(vendor_field)
            THEN ret.status = "returned" => section = Zeros(VendorFieldWidth)
            ELSE IF ~HexOk(vendor_field) THEN ret.status = "raised"
            ELSE IF Len(decoded) <= VendorFieldWidth
            THEN ret.status = "returned" =>
                     /\ Len(section) = VendorFieldWidth
                     /\ SubSeq(section, 1, Len(decoded)) = decoded
                     /\ \A i \in (Len(decoded) + 1)..VendorFieldWidth : section[i] = 0
            ELSE ret.status = "raised" /\ ret.value = <<>>

C8_Witness ==
    Returned("to_bytes") /\ vendor_field = hexlify(<<66, 80>>)

\* C9: fee is unset from construction until the concrete type assigns it, and
\* while it is unset every encoding operation fails with MissingFeeError,
\* yields no bytes and stores no signature.
C9_FeeRequired ==
    /\ ~configured => fee = NoneInt
    /\ fee = NoneInt =>
           /\ signature = NoneStr /\ sign_signature = NoneStr
           /\ ret.op \in EncodingOps =>
                  /\ ret.status = "raised"
                  /\ ret.err = "MissingFeeError"
                  /\ ret.value = <<>>

C9_Witness ==
    fee = NoneInt /\ ret.op = "sign" /\ ret.status = "raised"

\* C10: self._id is never assigned: it stays None and to_dict() reports None
\* under "id" after any sequence of calls.
C10_IdNeverStored ==
    /\ id = NoneStr
    /\ ret.op = "to_dict" => ret.value.id = NoneStr

C10_Witness ==
    ret.op = "to_dict" /\ signature # NoneStr /\ sign_signature # NoneStr
====
